---- MODULE Spec2Model ----
\* Model of Scanner::scan_tokens (src/src/scanner/utils.rs): the lexical
\* scanner of the Lox interpreter.  The source text is a sequence of UTF-8
\* bytes; start and current are 0-based byte offsets as in the Rust code.
\* One action is one dispatch of the main loop or one iteration of one of
\* its inner consuming loops.
EXTENDS Integers, Sequences, FiniteSets, TLC

VARIABLES source, start, current, line, column, tokens, has_error, logs, pc, c

vars == <<source, start, current, line, column, tokens, has_error, logs, pc, c>>

\* ---------------------------------------------------------------- bounds
\* Longest source text, in characters.
MaxLen == 4

\* The characters source texts are built from: one representative of every
\* class the dispatch distinguishes.  "U+00E9" is a two-byte character.
Alphabet == {"1", ".", "/", "*", "\n", ";", "\"", "'", "o", "r", "=", "U+00E9"}

\* ---------------------------------------------------------------- characters
\* Sentinels: the NUL character peek/advance return at the end of input, the
\* None of an exhausted chars() iterator, and the outcome of a panicking
\* expression.
NUL == "NUL"
None == "None"
PANIC == "PANIC"

Digits == {"0", "1", "2", "3", "4", "5", "6", "7", "8", "9"}
Letters == {"a", "b", "c", "d", "e", "f", "g", "h", "i", "j", "k", "l", "m",
            "n", "o", "p", "q", "r", "s", "t", "u", "v", "w", "x", "y", "z",
            "A", "B", "C", "D", "E", "F", "G", "H", "I", "J", "K", "L", "M",
            "N", "O", "P", "Q", "R", "S", "T", "U", "V", "W", "X", "Y", "Z"}
\* The three quote characters; BACKTICK stands for the grave accent.
BACKTICK == "BACKTICK"
QuoteChars == {"\"", "'", BACKTICK}

is_ascii_digit(ch) == ch \in Digits
\* is_ascii_alphabetic in the place of is_ascii_alphanumeric: a digit ends
\* the run.
is_ascii_alphabetic(ch) == ch \in Letters

is_ascii_alphanumeric(ch) == ch \in Digits \cup Letters

\* UTF-8: an ASCII character is one byte, U+00E9 is the bytes C3 A9.
Utf8(ch) == IF ch = "U+00E9" THEN <<"xC3", "xA9">> ELSE <<ch>>
\* A fixed single-byte step in the place of the encoded width.
len_utf8_OneByte(ch) == 1

len_utf8(ch) == Len(Utf8(ch))

RECURSIVE Encode(_)
Encode(chars) ==
  IF chars = <<>> THEN <<>> ELSE Utf8(Head(chars)) \o Encode(Tail(chars))

\* str::is_char_boundary: offset i does not point at a continuation byte.
IsCharBoundary(src, i) ==
  \/ i = 0
  \/ i = Len(src)
  \/ i < Len(src) /\ src[i + 1] # "xA9"

\* src[i..].chars().next(): panics when i is past the end or inside a
\* character, None when the slice is empty, else the character decoded at i.
FirstChar(src, i) ==
  IF i > Len(src) \/ ~IsCharBoundary(src, i) THEN PANIC
  ELSE IF i = Len(src) THEN None
  ELSE IF src[i + 1] = "xC3" THEN "U+00E9"
  ELSE src[i + 1]

\* Option::unwrap
Unwrap(x) == IF x = None THEN PANIC ELSE x

\* &src[a..b]
Slice(src, a, b) == SubSeq(src, a + 1, b)

\* ---------------------------------------------------------------- cursor
\* is_at_end with the comparison off by one: the last character is taken
\* for the end of input.
is_at_end_OffByOne(cur) == cur + 1 >= Len(source)

is_at_end(cur) == cur >= Len(source)

\* peek never returns None: at the end of input it is Some('\0').
peek(cur) ==
  IF is_at_end(cur) THEN NUL ELSE Unwrap(FirstChar(source, cur))

peek_next(cur) ==
  IF is_at_end(cur) THEN NUL ELSE Unwrap(FirstChar(source, cur + 1))

\* match_char compares the character at cur and does not advance.
match_char(cur, expected) ==
  IF is_at_end(cur) THEN FALSE
  ELSE IF Unwrap(FirstChar(source, cur)) # expected THEN FALSE
  ELSE TRUE

\* advance without its end-of-input check: the cursor moves on regardless.
advance_Unchecked(cur, col) ==
  LET ch == Unwrap(FirstChar(source, cur))
  IN [ch |-> IF ch = PANIC THEN NUL ELSE ch,
      current |-> cur + (IF ch = PANIC THEN 1 ELSE len_utf8(ch)),
      column |-> col + 1]

\* advance: the character consumed and the cursor and column after it.
advance(cur, col) ==
  IF is_at_end(cur) THEN [ch |-> NUL, current |-> cur, column |-> col]
  ELSE LET ch == Unwrap(FirstChar(source, cur))
       IN [ch |-> ch, current |-> cur + len_utf8(ch), column |-> col + 1]

\* peek, match_char and advance slice the source at cur and panic together.
CursorPanics(cur) == peek(cur) = PANIC

current_lexeme(st, cur) == Slice(source, st, cur)

\* &source[st..cur] panics unless st <= cur <= len on character boundaries.
SlicePanics(src, a, b) ==
  \/ a > b
  \/ b > Len(src)
  \/ ~IsCharBoundary(src, a)
  \/ ~IsCharBoundary(src, b)

\* ---------------------------------------------------------------- tokens
get_literal_type(token_type) ==
  CASE token_type = "Number" -> "Number"
    [] token_type = "String" -> "String"
    [] token_type = "True" -> "Boolean"
    [] token_type = "False" -> "Boolean"
    [] OTHER -> "Nil"

Token_new(token_type, lexeme, literal, ln, col) ==
  [type |-> token_type, lexeme |-> lexeme, literal |-> literal,
   line |-> ln, column |-> col]

add_token(toks, token_type, lexeme, ln, col) ==
  Append(toks,
         Token_new(token_type, lexeme, get_literal_type(token_type), ln, col + 1))

ends_with(lexeme, ch) == lexeme # <<>> /\ lexeme[Len(lexeme)] = ch
starts_with(lexeme, ch) == lexeme # <<>> /\ lexeme[1] = ch

\* lexeme.split('.').nth(0): the text before the first '.'.
RECURSIVE SplitFirst(_, _)
SplitFirst(lexeme, ch) ==
  IF lexeme = <<>> \/ Head(lexeme) = ch THEN <<>>
  ELSE <<Head(lexeme)>> \o SplitFirst(Tail(lexeme), ch)

NormalizeNumber(lexeme) ==
  IF ends_with(lexeme, ".") THEN SplitFirst(lexeme, ".")
  ELSE IF starts_with(lexeme, ".") THEN <<"0">> \o lexeme
  ELSE lexeme

\* The emission step of the main loop: whether slicing the lexeme panics,
\* and the token buffer after it.
EmitPanics(ttype, st, cur) ==
  \/ SlicePanics(source, st, cur)
  \/ /\ ttype = "String"
     /\ LET lexeme == current_lexeme(st, cur)
        IN Len(lexeme) < 1 \/ SlicePanics(lexeme, 1, Len(lexeme) - 1)

EmitToken(toks, ttype, st, cur, ln, col) ==
  LET lexeme == current_lexeme(st, cur)
  IN CASE ttype = "Comment" -> toks
       [] ttype = "String" ->
            add_token(toks, ttype, Slice(lexeme, 1, Len(lexeme) - 1), ln, col)
       [] ttype = "Number" ->
            add_token(toks, ttype, NormalizeNumber(lexeme), ln, col)
       [] OTHER -> add_token(toks, ttype, lexeme, ln, col)

KeywordType(identifier) ==
  CASE identifier = <<"v", "a", "r">> -> "Var"
    [] identifier = <<"f", "u", "n">> -> "Fun"
    [] identifier = <<"r", "e", "t", "u", "r", "n">> -> "Return"
    [] identifier = <<"i", "f">> -> "If"
    [] identifier = <<"e", "l", "s", "e">> -> "Else"
    [] identifier = <<"f", "o", "r">> -> "For"
    [] identifier = <<"w", "h", "i", "l", "e">> -> "While"
    [] identifier = <<"p", "r", "i", "n", "t">> -> "Print"
    [] identifier = <<"b", "r", "e", "a", "k">> -> "Break"
    [] identifier = <<"c", "o", "n", "t", "i", "n", "u", "e">> -> "Continue"
    [] identifier = <<"c", "l", "a", "s", "s">> -> "Class"
    [] identifier = <<"t", "h", "i", "s">> -> "This"
    [] identifier = <<"t", "r", "u", "e">> -> "True"
    [] identifier = <<"f", "a", "l", "s", "e">> -> "False"
    [] identifier = <<"n", "i", "l">> -> "Nil"
    [] identifier = <<"o", "r">> -> "Or"
    [] identifier = <<"a", "n", "d">> -> "And"
    [] identifier = <<"s", "u", "p", "e", "r">> -> "Super"
    [] OTHER -> "Identifier"

\* ---------------------------------------------------------------- diagnostics
\* lox.log_language(severity, message, position): the sink keeps the calls.
SyntaxError == [severity |-> "Error", error |-> "CompileError(SyntaxError)"]
Info == [severity |-> "Info", error |-> "none"]

log_language(lg, log, message, position) ==
  Append(lg, [severity |-> log.severity, error |-> log.error,
              message |-> message, position |-> position])

\* ---------------------------------------------------------------- state
\* Scanner::new and Lox::new: the cursor at the start of the text, line 1,
\* column 0, no tokens, no error flagged, nothing logged.
Init ==
  /\ \E n \in 0..MaxLen : \E chars \in [1..n -> Alphabet] : source = Encode(chars)
  /\ start = 0
  /\ current = 0
  /\ line = 1
  /\ column = 0
  /\ tokens = <<>>
  /\ has_error = FALSE
  /\ logs = <<>>
  /\ pc = "loop"
  /\ c = NUL

\* A panic: the scan is abandoned where it stands.
Abort ==
  /\ pc' = "panic"
  /\ UNCHANGED <<source, start, current, line, column, tokens, has_error, logs>>

\* Control moves into (or stays in) an inner loop.
Enter(p, st, cur, ln, col) ==
  /\ pc' = p
  /\ start' = st
  /\ current' = cur
  /\ line' = ln
  /\ column' = col
  /\ UNCHANGED <<source, tokens, has_error, logs>>

\* The tail of a main-loop iteration: the token type matched (None for no
\* token) is emitted and control returns to the loop head.
Resume(ttype, st, cur, ln, col, err, lg) ==
  IF ttype # None /\ EmitPanics(ttype, st, cur) THEN Abort
  ELSE /\ tokens' = IF ttype = None THEN tokens
                    ELSE EmitToken(tokens, ttype, st, cur, ln, col)
       /\ pc' = "loop"
       /\ start' = st
       /\ current' = cur
       /\ line' = ln
       /\ column' = col
       /\ has_error' = err
       /\ logs' = lg
       /\ UNCHANGED source

\* The two-character operator branch without its current += 1: the '=' is
\* matched but left unconsumed.
TwoCharOperator_NoSkip(one, two, st, cur, col) ==
  IF match_char(cur, "=")
  THEN Resume(two, st, cur, line, col, has_error, logs)
  ELSE Resume(one, st, cur, line, col, has_error, logs)

\* One- or two-character operator: on a following '=' the cursor is moved
\* with current += 1, the column is not.
TwoCharOperator(one, two, st, cur, col) ==
  IF match_char(cur, "=")
  THEN Resume(two, st, cur + 1, line, col, has_error, logs)
  ELSE Resume(one, st, cur, line, col, has_error, logs)

\* The head of the main loop and the dispatch on the character consumed.
Dispatch ==
  /\ pc = "loop"
  /\ ~is_at_end(current)
  /\ LET st == current
         a == advance(current, column)
         ch == a.ch
         cur == a.current
         col == a.column
     IN /\ c' = ch
        /\ IF CursorPanics(current) THEN Abort
           ELSE CASE ch = "(" -> Resume("LeftParen", st, cur, line, col, has_error, logs)
             [] ch = ")" -> Resume("RightParen", st, cur, line, col, has_error, logs)
             [] ch = "{" -> Resume("LeftBrace", st, cur, line, col, has_error, logs)
             [] ch = "}" -> Resume("RightBrace", st, cur, line, col, has_error, logs)
             [] ch = "." ->
                  IF is_ascii_digit(peek(cur))
                  THEN LET b == advance(cur, col)
                       IN Enter("dotnum", st, b.current, line, b.column)
                  ELSE Resume("Dot", st, cur, line, col, has_error, logs)
             [] ch = "-" -> Resume("Minus", st, cur, line, col, has_error, logs)
             [] ch = "*" -> Resume("Star", st, cur, line, col, has_error, logs)
             [] ch = "+" -> Resume("Plus", st, cur, line, col, has_error, logs)
             [] ch = "%" -> Resume("Modulus", st, cur, line, col, has_error, logs)
             [] ch = "/" ->
                  IF match_char(cur, "/") THEN Enter("slcomment", st, cur, line, col)
                  ELSE IF match_char(cur, "*") THEN Enter("mlcomment", st, cur, line, col)
                  ELSE Resume("Divide", st, cur, line, col, has_error, logs)
             [] ch = ";" ->
                  IF match_char(cur, "\n")
                  THEN IF Len(tokens) = 0 THEN Abort
                       ELSE IF tokens[Len(tokens)].lexeme = <<";">>
                       THEN Enter("semiskip", st, cur, line, col)
                       ELSE Resume("Semicolon", st, cur, line, col, has_error, logs)
                  ELSE Resume("Semicolon", st, cur, line, col, has_error, logs)
             [] ch = "," -> Resume("Comma", st, cur, line, col, has_error, logs)
             [] ch = "!" -> TwoCharOperator("Bang", "BangEqual", st, cur, col)
             [] ch = "=" -> TwoCharOperator("Equal", "EqualEqual", st, cur, col)
             [] ch = "<" -> TwoCharOperator("Less", "LessEqual", st, cur, col)
             [] ch = ">" -> TwoCharOperator("Greater", "GreaterEqual", st, cur, col)
             [] ch \in {" ", "\r", "\t"} ->
                  Resume(None, st, cur, line, col, has_error, logs)
             [] ch \in QuoteChars -> Enter("string", st, cur, line, col)
             [] ch = "\n" -> Resume(None, st, cur, line + 1, 0, has_error, logs)
             [] ch \in Letters \cup {"_"} -> Enter("ident", st, cur, line, col)
             [] ch \in Digits -> Enter("number", st, cur, line, col)
             [] OTHER ->
                  Resume(None, st, cur, line, col, TRUE,
                         log_language(logs, SyntaxError,
                                      <<"Unexpected character: ", ch>>,
                                      <<"line: ", line, col + 1>>))

\* Leading-dot decimal: the digits after ".d".
DotNumberStep ==
  /\ pc = "dotnum"
  /\ UNCHANGED c
  /\ IF CursorPanics(current) THEN Abort
     ELSE IF is_ascii_digit(peek(current))
     THEN LET a == advance(current, column)
          IN Enter("dotnum", start, a.current, line, a.column)
     ELSE Resume("Number", start, current, line, column, has_error, logs)

\* Single-line comment: consume up to, not including, the newline.
LineCommentStep ==
  /\ pc = "slcomment"
  /\ UNCHANGED c
  /\ IF CursorPanics(current) THEN Abort
     ELSE IF peek(current) = "\n"
     THEN Resume("Comment", start, current, line, column, has_error, logs)
     ELSE LET a == advance(current, column)
          IN Enter("slcomment", start, a.current, line, a.column)

\* The unterminated-comment check without `lox.has_error = true`: the
\* diagnostic is logged and the flag left as it was.
BlockCommentExit_NoFlag(cur, ln, col) ==
  IF is_at_end(cur)
  THEN Resume("Comment", start, cur, ln, col, has_error,
              log_language(logs, SyntaxError, <<"Unterminated multi-line comment">>,
                           <<"line: ", ln, col>>))
  ELSE Resume("Comment", start, cur, ln, col, has_error, logs)

\* The check after the multi-line comment loop, and the discarded Comment.
BlockCommentExit(cur, ln, col) ==
  IF is_at_end(cur)
  THEN Resume("Comment", start, cur, ln, col, TRUE,
              log_language(logs, SyntaxError, <<"Unterminated multi-line comment">>,
                           <<"line: ", ln, col>>))
  ELSE Resume("Comment", start, cur, ln, col, has_error, logs)

\* Multi-line comment: one iteration of the loop, or its exit.
BlockCommentStep ==
  /\ pc = "mlcomment"
  /\ UNCHANGED c
  /\ IF is_at_end(current) THEN BlockCommentExit(current, line, column)
     ELSE IF CursorPanics(current) THEN Abort
     ELSE IF peek(current) = "*" /\ peek_next(current) = PANIC THEN Abort
     ELSE IF peek(current) = "*" /\ peek_next(current) = "/"
     THEN LET a == advance(current, column)
              b == advance(a.current, a.column)
          IN BlockCommentExit(b.current, line, b.column)
     ELSE LET a == advance(current, column)
          IN IF a.ch = "\n"
             THEN Enter("mlcomment", start, a.current, line + 1, 0)
             ELSE Enter("mlcomment", start, a.current, line, a.column)

\* source[i..].chars().take_while(|&c| c != '\n'): the rest of the line.
RECURSIVE RestOfLine(_, _)
RestOfLine(src, i) ==
  IF i >= Len(src) \/ src[i + 1] = "\n" THEN <<>>
  ELSE <<src[i + 1]>> \o RestOfLine(src, i + 1)

\* Duplicate semicolon: skip to the end of the line, then report it.
SemicolonSkipStep ==
  /\ pc = "semiskip"
  /\ UNCHANGED c
  /\ IF CursorPanics(current) THEN Abort
     ELSE IF peek(current) = "\n"
     THEN LET snippet == RestOfLine(source, start + 1)
              lg1 == log_language(logs, SyntaxError,
                        <<"Expect ';' after expression. Found ';", snippet, "' instead.">>,
                        <<"", line, column>>)
              lg2 == log_language(lg1, Info,
                        <<"Please make sure the end of your expression is followed by a single semicolon.">>,
                        <<"", line, column>>)
          IN Resume(None, start, current, line, column, TRUE, lg2)
     ELSE LET a == advance(current, column)
          IN Enter("semiskip", start, a.current, line, a.column)

\* The check after the string loop: a flagged error suppresses the token.
StringExit(cur, col, err) ==
  IF err
  THEN Resume(None, start, cur, line, col, err,
              log_language(logs, SyntaxError,
                           <<"Unexpected character: ", c, " String must have pairs of ", c>>,
                           <<"line: ", line - 1, col + 1>>))
  ELSE Resume("String", start, cur, line, col, err, logs)

\* String literal: one iteration of the loop, or its exit.
StringStep ==
  /\ pc = "string"
  /\ UNCHANGED c
  /\ IF is_at_end(current) THEN StringExit(current, column, TRUE)
     ELSE IF CursorPanics(current) THEN Abort
     ELSE LET next == peek(current)
              a == advance(current, column)
          IN IF next = "\n" THEN Enter("string", start, a.current, line + 1, a.column)
             ELSE IF next \in QuoteChars THEN StringExit(a.current, a.column, has_error)
             ELSE Enter("string", start, a.current, line, a.column)

\* tokenize_number: digits, and every '.' met on the way.
NumberStep ==
  /\ pc = "number"
  /\ UNCHANGED c
  /\ IF CursorPanics(current) THEN Abort
     ELSE IF is_ascii_digit(peek(current)) \/ match_char(current, ".")
     THEN LET a == advance(current, column)
          IN Enter("number", start, a.current, line, a.column)
     ELSE Resume("Number", start, current, line, column, has_error, logs)

\* tokenize_identifier: the maximal run, then the keyword table.
IdentifierStep ==
  /\ pc = "ident"
  /\ UNCHANGED c
  /\ IF CursorPanics(current) THEN Abort
     ELSE IF is_ascii_alphanumeric(peek(current)) \/ peek(current) = "_"
     THEN LET a == advance(current, column)
          IN Enter("ident", start, a.current, line, a.column)
     ELSE IF SlicePanics(source, start, current) THEN Abort
     ELSE Resume(KeywordType(current_lexeme(start, current)),
                 start, current, line, column, has_error, logs)

\* After the main loop: the Eof token, and scan_tokens returns.
ScanEnd ==
  /\ pc = "loop"
  /\ is_at_end(current)
  /\ tokens' = add_token(tokens, "Eof", <<"E", "O", "F">>, line, column)
  /\ pc' = "done"
  /\ UNCHANGED <<source, start, current, line, column, has_error, logs, c>>

Next ==
  \/ Dispatch
  \/ DotNumberStep
  \/ LineCommentStep
  \/ BlockCommentStep
  \/ SemicolonSkipStep
  \/ StringStep
  \/ NumberStep
  \/ IdentifierStep
  \/ ScanEnd

Spec == Init /\ [][Next]_vars

\* ---------------------------------------------------------------- claims
IsNumberChar(b) == b \in Digits
DigitsOf(lexeme) == SelectSeq(lexeme, IsNumberChar)
LastToken(toks) == toks[Len(toks)]
EofTokens == {i \in DOMAIN tokens : tokens[i].type = "Eof"}

\* C1: for every finite source text the scan terminates: while the call is
\* running, the next step either consumes input or leaves the loop it is
\* in, so the cursor reaches the end and every loop exits.
C1_EveryLoopProgresses ==
  \/ pc \in {"done", "panic"}
  \/ ENABLED (Next /\ (current' > current \/ pc' # pc))

\* C2: scan_tokens never aborts: no panic, no out-of-range index or slice,
\* no failed unwrap, in any reachable scanner state.
C2_NeverAborts == pc # "panic"

\* C3: when scan_tokens returns, the token sequence holds exactly one Eof
\* token, it is the last one and its lexeme is "EOF"; no Eof token is in
\* the sequence before the cursor has reached the end of the source.
C3_ExactlyOneEofLast ==
  /\ pc = "done" =>
       /\ Len(tokens) >= 1
       /\ LastToken(tokens).type = "Eof"
       /\ LastToken(tokens).lexeme = <<"E", "O", "F">>
       /\ Cardinality(EofTokens) = 1
  /\ EofTokens # {} => pc = "done" /\ current >= Len(source)

\* C3 witness: a scan that returned with tokens before the Eof token and
\* with a lexical error recorded on the way.
C3_Witness ==
  /\ pc = "done"
  /\ Len(tokens) >= 3
  /\ has_error
  /\ LastToken(tokens).type = "Eof"

\* C4: a string literal whose closing quote is found yields exactly one
\* String token whose lexeme is the text between the quotes, whatever the
\* error flag was when the literal began.
C4_ClosedStringEmitsToken ==
  [][(pc = "string" /\ ~is_at_end(current) /\ peek(current) = c)
       => /\ Len(tokens') = Len(tokens) + 1
          /\ SubSeq(tokens', 1, Len(tokens)) = tokens
          /\ LastToken(tokens').type = "String"
          /\ LastToken(tokens').lexeme = Slice(source, start + 1, current)]_vars

\* C5: inside a string literal a quote character other than the opening
\* one is content: it does not end the literal.
C5_OtherQuoteIsContent ==
  [][(pc = "string" /\ ~is_at_end(current)
        /\ peek(current) \in QuoteChars /\ peek(current) # c)
       => pc' = "string" /\ tokens' = tokens]_vars

\* No occurrence of the opening quote character is left in the input.
NoClosingQuote == \A i \in (current + 1)..Len(source) : source[i] # c

\* C6: when the input ends with no closing quote for the open literal, no
\* String token is appended for it, and leaving the literal sets has_error
\* and logs exactly one Error-severity SyntaxError diagnostic.
C6_UnterminatedStringNoToken ==
  [][(pc = "string" /\ NoClosingQuote)
       => /\ tokens' = tokens
          /\ pc' = "loop" =>
               /\ has_error'
               /\ Len(logs') = Len(logs) + 1
               /\ logs'[Len(logs')].severity = "Error"]_vars

\* C7: a multi-line comment closed by */ after its opening /* produces no
\* diagnostic and leaves has_error unchanged, also when */ are the last two
\* characters of the source.
C7_ClosedCommentNoDiagnostic ==
  [][(pc = "mlcomment" /\ current >= start + 2 /\ ~is_at_end(current)
        /\ peek(current) = "*" /\ peek_next(current) = "/")
       => logs' = logs /\ has_error' = has_error]_vars

\* C8: at most one decimal point is consumed into a Number token: once the
\* number holds a '.', a further '.' ends it and is not consumed.
C8_OneDecimalPoint ==
  [][(pc = "number" /\ ~is_at_end(current) /\ peek(current) = "."
        /\ \E i \in (start + 1)..current : source[i] = ".")
       => pc' # "number" /\ current' = current]_vars

\* C9: the lexeme of an emitted Number token keeps every digit consumed into
\* it (after the '0' put before a leading '.') and neither begins nor ends
\* with '.'.
C9_NumberLexemeKeepsDigits ==
  [][(pc \in {"number", "dotnum"} /\ pc' = "loop")
       => LET raw == Slice(source, start, current)
              lexeme == LastToken(tokens').lexeme
          IN /\ Len(tokens') = Len(tokens) + 1
             /\ DigitsOf(lexeme) =
                  IF starts_with(raw, ".") THEN <<"0">> \o DigitsOf(raw)
                  ELSE DigitsOf(raw)
             /\ ~starts_with(lexeme, ".")
             /\ ~ends_with(lexeme, ".")]_vars

\* C10: a step that consumes a newline increments line by exactly 1 and
\* resets column to 0; a step that consumes none leaves line unchanged.
C10_NewlineTracking ==
  [][IF \E i \in (current + 1)..current' : source[i] = "\n"
     THEN line' = line + 1 /\ column' = 0
     ELSE line' = line]_vars

\* The number of characters of the cursor's line that lie before offset cur.
RECURSIVE CharsOnLine(_)
CharsOnLine(cur) ==
  IF cur = 0 \/ source[cur] = "\n" THEN 0
  ELSE (IF source[cur] = "xA9" THEN 0 ELSE 1) + CharsOnLine(cur - 1)

\* C11: the column of an appended token is the 1-based position just after
\* its last consumed character: one more than the number of characters
\* consumed on its line up to and including that character (stated for
\* tokens that do not span a newline).
C11_TokenColumnAfterLastChar ==
  [][(pc' = "loop" /\ Len(tokens') = Len(tokens) + 1
        /\ \A i \in (start' + 1)..current' : source[i] # "\n")
       => LastToken(tokens').column = CharsOnLine(current') + 1]_vars

\* ---------------------------------------------------------------- operators
\* Source texts over the comparison and assignment operator characters,
\* with the characters the other branches need.
OperatorAlphabet == {"!", "=", "<", ">", "1", ".", "/", "*", "\n", ";", "'", "o"}

InitOperators ==
  /\ \E n \in 0..MaxLen :
       \E chars \in [1..n -> OperatorAlphabet] : source = Encode(chars)
  /\ start = 0
  /\ current = 0
  /\ line = 1
  /\ column = 0
  /\ tokens = <<>>
  /\ has_error = FALSE
  /\ logs = <<>>
  /\ pc = "loop"
  /\ c = NUL

SpecOperators == InitOperators /\ [][Next]_vars

OneCharType(ch) ==
  CASE ch = "!" -> "Bang" [] ch = "=" -> "Equal"
    [] ch = "<" -> "Less" [] ch = ">" -> "Greater"
TwoCharType(ch) ==
  CASE ch = "!" -> "BangEqual" [] ch = "=" -> "EqualEqual"
    [] ch = "<" -> "LessEqual" [] ch = ">" -> "GreaterEqual"

\* C12: one of ! = < > immediately followed by '=' gives exactly one
\* two-character token whose lexeme is both characters, and scanning
\* resumes after the '='; not followed by '=', it gives the one-character
\* token and nothing more is consumed.
C12_TwoCharOperators ==
  [][(pc = "loop" /\ current < Len(source)
        /\ source[current + 1] \in {"!", "=", "<", ">"})
       => LET ch == source[current + 1]
              followed == current + 1 < Len(source) /\ source[current + 2] = "="
          IN /\ pc' = "loop"
             /\ Len(tokens') = Len(tokens) + 1
             /\ SubSeq(tokens', 1, Len(tokens)) = tokens
             /\ IF followed
                THEN /\ LastToken(tokens').type = TwoCharType(ch)
                     /\ LastToken(tokens').lexeme = <<ch, "=">>
                     /\ current' = current + 2
                ELSE /\ LastToken(tokens').type = OneCharType(ch)
                     /\ LastToken(tokens').lexeme = <<ch>>
                     /\ current' = current + 1]_vars

\* C12 witness: a source beginning "<=!" with no '=' after the '!': a
\* two-character token, then a one-character token of another operator.
C12_Witness ==
  /\ pc = "loop"
  /\ Len(tokens) = 2
  /\ tokens[1].type = "LessEqual" /\ tokens[1].lexeme = <<"<", "=">>
  /\ tokens[2].type = "Bang" /\ tokens[2].lexeme = <<"!">>
  /\ current = 3

\* ---------------------------------------------------------------- identifiers
IdentifierChars == Letters \cup Digits \cup {"_"}

KeywordLexemes ==
  {<<"v", "a", "r">>, <<"f", "u", "n">>, <<"r", "e", "t", "u", "r", "n">>,
   <<"i", "f">>, <<"e", "l", "s", "e">>, <<"f", "o", "r">>,
   <<"w", "h", "i", "l", "e">>, <<"p", "r", "i", "n", "t">>,
   <<"b", "r", "e", "a", "k">>, <<"c", "o", "n", "t", "i", "n", "u", "e">>,
   <<"c", "l", "a", "s", "s">>, <<"t", "h", "i", "s">>, <<"t", "r", "u", "e">>,
   <<"f", "a", "l", "s", "e">>, <<"n", "i", "l">>, <<"o", "r">>,
   <<"a", "n", "d">>, <<"s", "u", "p", "e", "r">>}

\* C13: an identifier token covers the maximal run of ASCII alphanumeric
\* and '_' characters that starts at a letter or '_', and is a keyword
\* token only when the whole run is a keyword; a run that only starts with
\* a keyword is one Identifier token.
C13_IdentifierMaximalMunch ==
  [][(pc = "ident" /\ pc' = "loop")
       => LET tok == LastToken(tokens')
          IN /\ Len(tokens') = Len(tokens) + 1
             /\ SubSeq(tokens', 1, Len(tokens)) = tokens
             /\ tok.lexeme = Slice(source, start, current')
             /\ Len(tok.lexeme) >= 1
             /\ tok.lexeme[1] \in Letters \cup {"_"}
             /\ \A i \in DOMAIN tok.lexeme : tok.lexeme[i] \in IdentifierChars
             /\ current' < Len(source) => source[current' + 1] \notin IdentifierChars
             /\ tok.type # "Identifier" <=> tok.lexeme \in KeywordLexemes
             /\ tok.lexeme = <<"o", "r">> => tok.type = "Or"]_vars

\* C13 witness: the run "or1", which starts with the keyword or, scanned
\* as one Identifier token, and the scan finished with nothing else.
C13_Witness ==
  /\ pc = "done"
  /\ Len(tokens) = 2
  /\ tokens[1].type = "Identifier"
  /\ tokens[1].lexeme = <<"o", "r", "1">>

\* ---------------------------------------------------------------- comments
\* The offsets at or after `from` where a "*/" begins.
ClosersFrom(from) ==
  {j \in from..(Len(source) - 2) : source[j + 1] = "*" /\ source[j + 2] = "/"}

Min(S) == CHOOSE x \in S : \A y \in S : x <= y

\* Where the block comment opened by the "/*" at offset st ends: after the
\* first "*/" that follows the opening, or at the end of the input.
BlockCommentEnd(st) ==
  IF ClosersFrom(st + 2) = {} THEN Len(source) ELSE Min(ClosersFrom(st + 2)) + 2

\* Where the line comment opened at offset st ends: before the next newline.
LineCommentEnd(st) ==
  LET nl == {j \in st..(Len(source) - 1) : source[j + 1] = "\n"}
  IN IF nl = {} THEN Len(source) ELSE Min(nl)

\* C14: no Comment token is ever appended and no text from inside a comment
\* reaches a token: while a comment is consumed the token sequence does not
\* change, and scanning resumes only where the comment ends (at the newline
\* for a // comment, after the closing */ for a block comment).
C14_CommentTextNeverTokenized ==
  [][/\ \A i \in DOMAIN tokens' : tokens'[i].type # "Comment"
     /\ pc \in {"slcomment", "mlcomment"} => tokens' = tokens
     /\ (pc = "slcomment" /\ pc' = "loop") => current' = LineCommentEnd(start)
     /\ (pc = "mlcomment" /\ pc' = "loop") => current' >= BlockCommentEnd(start)]_vars

\* ---------------------------------------------------------------- errors
\* The characters some dispatch case recognizes.
RecognizedChars ==
  {"(", ")", "{", "}", ".", "-", "*", "+", "%", "/", ";", ",", "!", "=", "<",
   ">", " ", "\r", "\t", "\n", "_"} \cup QuoteChars \cup Letters \cup Digits

IsUnexpectedCharLog(entry) ==
  /\ entry.severity = "Error"
  /\ entry.error = "CompileError(SyntaxError)"
  /\ Len(entry.message) = 2
  /\ entry.message[1] = "Unexpected character: "

\* The step taken on a character no dispatch case recognizes: no token, the
\* flag set, one Error-severity SyntaxError naming the character, and the
\* scan resumed at the character after it.
UnexpectedCharStep ==
  (pc = "loop" /\ current < Len(source)
     /\ FirstChar(source, current) \notin RecognizedChars)
    => LET ch == FirstChar(source, current)
       IN /\ tokens' = tokens
          /\ has_error'
          /\ Len(logs') = Len(logs) + 1
          /\ SubSeq(logs', 1, Len(logs)) = logs
          /\ IsUnexpectedCharLog(logs'[Len(logs')])
          /\ logs'[Len(logs')].message[2] = ch
          /\ pc' = "loop"
          /\ current' = current + len_utf8(ch)

\* A string literal closed by its own quote character, in a scan whose only
\* errors so far are unrecognized characters, yields its String token.
StringAfterUnexpectedChar ==
  (pc = "string" /\ current < Len(source) /\ source[current + 1] = c
     /\ \A i \in DOMAIN logs : IsUnexpectedCharLog(logs[i]))
    => /\ Len(tokens') = Len(tokens) + 1
       /\ LastToken(tokens').type = "String"

\* C15: an unrecognized character appends no token, sets has_error, logs
\* exactly one Error-severity SyntaxError naming it, and scanning resumes at
\* the next character, so that the tokens after it are unaffected.
C15_UnexpectedCharRecovered ==
  [][UnexpectedCharStep /\ StringAfterUnexpectedChar]_vars

ErrorLogged(lg) == \E i \in DOMAIN lg : lg[i].severity = "Error"

\* C16: in a scan started with has_error false, has_error is true exactly
\* when an Error-severity diagnostic has been logged, in every state up to
\* and including the return; an Error-severity entry is never logged with
\* the flag false, and the flag never goes back to false.
C16_ErrorFlagMatchesLogs ==
  [][/\ has_error <=> ErrorLogged(logs)
     /\ has_error' <=> ErrorLogged(logs')
     /\ has_error => has_error'
     /\ Len(logs') >= Len(logs)]_vars

\* C16 witness: a scan that returned after logging an Error-severity
\* diagnostic, with the flag set.
C16_Witness ==
  /\ pc = "done"
  /\ has_error
  /\ Len(logs) >= 1
  /\ logs[1].severity = "Error"

\* ---------------------------------------------------------------- semicolons
\* Longest source text, in characters, of the statement-terminator runs.
MaxLenSemicolon == 5

\* A ';' can follow a string literal whose text is ";" only in a source of
\* five characters; the alphabet is narrowed to keep the run small.
SemicolonAlphabet == {";", "\n", "'", "1", ".", "/", "*", "o"}

InitSemicolon ==
  /\ \E n \in 0..MaxLenSemicolon :
       \E chars \in [1..n -> SemicolonAlphabet] : source = Encode(chars)
  /\ start = 0
  /\ current = 0
  /\ line = 1
  /\ column = 0
  /\ tokens = <<>>
  /\ has_error = FALSE
  /\ logs = <<>>
  /\ pc = "loop"
  /\ c = NUL

SpecSemicolon == InitSemicolon /\ [][Next]_vars

\* C17: a ';' is a malformed terminator only when a newline follows it and
\* the token appended just before it is a Semicolon token; any other ';'
\* yields exactly one Semicolon token (stated for a ';' that is not the
\* first token; the scan aborts on a first-token ';' before a newline, C2).
C17_MalformedOnlyAfterSemicolon ==
  [][(pc = "loop" /\ current < Len(source) /\ source[current + 1] = ";"
        /\ Len(tokens) >= 1
        /\ ~(/\ current + 1 < Len(source)
             /\ source[current + 2] = "\n"
             /\ LastToken(tokens).type = "Semicolon"))
       => /\ pc' = "loop"
          /\ Len(tokens') = Len(tokens) + 1
          /\ SubSeq(tokens', 1, Len(tokens)) = tokens
          /\ LastToken(tokens').type = "Semicolon"
          /\ has_error' = has_error
          /\ logs' = logs]_vars

\* ---------------------------------------------------------------- lookahead
\* The character that starts at byte offset i, or the NUL sentinel when
\* there is none.
CharOrNul(i) ==
  IF i >= Len(source) THEN NUL
  ELSE IF source[i + 1] = "xC3" THEN "U+00E9"
  ELSE source[i + 1]

\* C18: wherever the scanner looks ahead, peek is the character at current
\* and peek_next the character after it, each the NUL sentinel when there
\* is no character at that position (peek_next also when current is at the
\* last character), and neither fails.  peek_next is looked at where the
\* code calls it: in a block comment with a '*' at current.
C18_LookaheadNeverFails ==
  /\ pc \notin {"done", "panic"} => peek(current) = CharOrNul(current)
  /\ (pc = "mlcomment" /\ current < Len(source) /\ source[current + 1] = "*")
       => peek_next(current) = CharOrNul(current + 1)

\* ---------------------------------------------------------------- cursor bounds
\* C19: in every state of a scan start <= current <= len(source), and no
\* step moves current backwards.
C19_CursorInBoundsAndMonotonic ==
  [][/\ start <= current /\ current <= Len(source)
     /\ start' <= current' /\ current' <= Len(source)
     /\ 0 <= start'
     /\ current' >= current]_vars

\* C19 witness: a scan that returned with the cursor at the end of a source
\* of at least three bytes, after a two-character operator moved the cursor
\* with current += 1.
C19_Witness ==
  /\ pc = "done"
  /\ current = Len(source)
  /\ Len(source) >= 3
  /\ start < current
  /\ \E i \in DOMAIN tokens : tokens[i].type = "EqualEqual"

\* ---------------------------------------------------------------- multi-byte
\* A byte sequence that is whole characters: every lead byte is followed by
\* its continuation byte and every continuation byte follows a lead byte.
WholeChars(bytes) ==
  \A i \in DOMAIN bytes :
    /\ bytes[i] = "xC3" => (i < Len(bytes) /\ bytes[i + 1] = "xA9")
    /\ bytes[i] = "xA9" => (i > 1 /\ bytes[i - 1] = "xC3")

OnCharBoundary(i) ==
  /\ 0 <= i
  /\ i <= Len(source)
  /\ i < Len(source) => source[i + 1] # "xA9"

\* C20: with multi-byte characters in the source, start and current always
\* lie on character boundaries; every cursor movement covers whole
\* characters, so every token's lexeme is whole characters; and a step over
\* the two-byte character counts as one character, as a step over a
\* one-byte character in its place would: one column, no line, no token.
C20_CursorOnCharBoundaries ==
  [][/\ OnCharBoundary(start) /\ OnCharBoundary(current)
     /\ OnCharBoundary(start') /\ OnCharBoundary(current')
     /\ WholeChars(Slice(source, current, current'))
     /\ WholeChars(Slice(source, start', current'))
     /\ \A i \in DOMAIN tokens' : WholeChars(tokens'[i].lexeme)
     /\ Slice(source, current, current') = <<"xC3", "xA9">>
          => /\ column' = column + 1
             /\ line' = line
             /\ tokens' = tokens
             /\ pc' = pc]_vars

\* C20 witness: the source 'U+00E9'1 scanned to the end: a String token
\* whose lexeme is the two-byte character, then the Number token after it.
C20_Witness ==
  /\ pc = "done"
  /\ Len(tokens) = 3
  /\ tokens[1].type = "String"
  /\ tokens[1].lexeme = <<"xC3", "xA9">>
  /\ tokens[2].type = "Number"
  /\ tokens[2].lexeme = <<"1">>
====
